---------------------------- MODULE Spec2Model ----------------------------
(***************************************************************************)
(* Model of src/server.js: the CORS origin admission predicate, the        *)
(* Express request pipeline in registration order, the health and welcome  *)
(* routes, and the process lifecycle guard (unhandledRejection /           *)
(* uncaughtException -> log, server.close, process.exit(1)).               *)
(*                                                                         *)
(* Strings are sequences of tokens.  An origin is a sequence over Chars,   *)
(* where "L" stands for the text http://localhost:5173, "P" for the text   *)
(* https://maternal-survey.vercel.app, "/" for the slash character and     *)
(* "x" for any other text.  A request path is its sequence of segments.    *)
(*                                                                         *)
(* A synchronous stretch of JavaScript is one action: a request runs from  *)
(* its arrival to the first stage that answers or waits (the body parser   *)
(* reading a body, a route collaborator), and each guard handler runs its  *)
(* two statements at once.  The two process.on handlers have the same body *)
(* and are two actions with the same effect.                               *)
(***************************************************************************)
EXTENDS Integers, Sequences, FiniteSets

VARIABLES
  pc,          \* position of the main module: env, db, routes, listen, install, running, exited
  pendingRej,  \* a promise rejected during startup, reported once the main module has run
  listening,   \* the listener accepts new connections
  closeCalls,  \* number of server.close() calls made by the guard
  trace,       \* what the guard did, in order: log, close, exit
  exitCode,    \* -1 while the process lives
  exitVia,     \* none, guard (process.exit(1) of the guard), default (the runtime's own crash)
  readyState,  \* mongoose.connection.readyState
  conns,       \* per connection: its state and the request it carries
  stableDb,    \* database field of the last health response, none after a readyState change
  probe        \* one application of corsOptions.origin: its argument and its callback result

vars == <<pc, pendingRej, listening, closeCalls, trace, exitCode, exitVia,
          readyState, conns, stableDb, probe>>

------------------------------------------------------------------------------
(* Bounds *)

MaxOriginLen == 4

MaxConns == 2

MaxFaults == 2

------------------------------------------------------------------------------
(* Strings *)

Chars == {"L", "P", "/", "x"}

SeqsUpTo(S, n) == UNION {[1..k -> S] : k \in 0..n}

RECURSIVE Includes(_, _)
Includes(arr, s) ==
  IF arr = <<>> THEN FALSE
  ELSE IF Head(arr) = s THEN TRUE
  ELSE Includes(Tail(arr), s)

IsPrefix(p, s) == Len(p) <= Len(s) /\ SubSeq(s, 1, Len(p)) = p

------------------------------------------------------------------------------
(* Origin admission policy *)

allowedOrigins == << <<"L">>, <<"P">>, <<"P", "/">> >>

Absent == [present |-> FALSE, text |-> <<>>]

Present(s) == [present |-> TRUE, text |-> s]

AllOrigins == {Absent} \cup {Present(s) : s \in SeqsUpTo(Chars, MaxOriginLen)}

\* !origin: undefined and the empty string are both falsy
Falsy(o) == ~o.present \/ o.text = <<>>

\* A plausible slip: g flag semantics, every trailing slash is removed
RECURSIVE StripAllTrailingSlashes(_)
StripAllTrailingSlashes(s) ==
  IF Len(s) > 0 /\ s[Len(s)] = "/"
  THEN StripAllTrailingSlashes(SubSeq(s, 1, Len(s) - 1))
  ELSE s

\* origin.replace(/\/$/, ''): one slash at the very end of the string is removed
StripTrailingSlash(s) ==
  IF Len(s) > 0 /\ s[Len(s)] = "/" THEN SubSeq(s, 1, Len(s) - 1) ELSE s

NoError == "none"

CorsError == "Not allowed by CORS"

NotCalled == [err |-> NoError, allow |-> FALSE]

\* the callback of corsOptions.origin: callback(null, true) or callback(new Error(...))
CorsOrigin(o) ==
  IF Falsy(o)
     \/ Includes(allowedOrigins, o.text)
     \/ Includes(allowedOrigins, StripTrailingSlash(o.text))
  THEN [err |-> NoError, allow |-> TRUE]
  ELSE [err |-> CorsError, allow |-> FALSE]

------------------------------------------------------------------------------
(* Requests and responses *)

\* Connection 1 is the observed connection: its requests are followed through
\* the pipeline in full.  The other connections are background load: they are
\* open or closed, idle or busy with a request, and nothing more is kept.
Conns == 1..MaxConns

Observed == {1}

Background == Conns \ Observed

Methods == {"GET", "POST", "OPTIONS"}

ReqPaths == { <<>>,
              <<"api", "health">>,
              <<"api", "v1", "responses">>,
              <<"api", "v1", "auth">>,
              <<"api", "v1", "analytics">>,
              <<"api", "v1", "adv">>,
              <<"api", "v1", "surveys", "x">>,
              <<"api", "health", "x">> }

\* origins of the requests the pipeline is run on: no header, an empty header,
\* the production origin with a trailing slash, and a foreign origin
ReqOrigins == {Absent, Present(<<>>), Present(<<"P", "/">>), Present(<<"x">>)}

\* none: no body; json: a well-formed JSON body; badjson: a malformed JSON body
Bodies == {"none", "json", "badjson"}

\* a preflight carries no body
BodiesOf(m) == IF m = "OPTIONS" THEN {"none"} ELSE Bodies

NoReq == [method |-> "", path |-> <<>>, origin |-> Absent, body |-> "none",
          next |-> 0, err |-> NoError, visited |-> <<>>, responses |-> <<>>,
          late |-> FALSE]

NewReq(m, p, o, b, l) ==
  [method |-> m, path |-> p, origin |-> o, body |-> b,
   next |-> 1, err |-> NoError, visited |-> <<>>, responses |-> <<>>,
   late |-> l]

ClosedConn == [st |-> "closed", req |-> NoReq]

optionsSuccessStatus == 200

WelcomePayload ==
  [message |-> "Maternal Survey API",
   version |-> "1.0.0",
   endpoints |-> [survey |-> "/api/v1/responses",
                  auth |-> "/api/v1/auth",
                  analytics |-> "/api/v1/analytics",
                  advanced |-> "/api/v1/adv"],
   documentation |-> "https://github.com/your-repo/docs"]

\* mongoose.connection.readyState === 1 ? 'connected' : 'disconnected'
DatabaseField(rs) == IF rs = 1 THEN "connected" ELSE "disconnected"

HealthPayload(rs) ==
  [status |-> "ok", database |-> DatabaseField(rs), version |-> "1.0.0"]

Visit(r, name) == [r EXCEPT !.visited = Append(@, name)]

Respond(r, by, status, payload) ==
  [r EXCEPT !.responses = Append(@, [by |-> by, status |-> status, payload |-> payload])]

Pass(r) == [r EXCEPT !.next = @ + 1]

Raise(r, e) == [r EXCEPT !.err = e, !.next = @ + 1]

------------------------------------------------------------------------------
(* The pipeline, in registration order *)

Pipeline ==
  << [kind |-> "cors",    name |-> "cors",            at |-> <<>>],
     [kind |-> "options", name |-> "options",         at |-> <<>>],
     [kind |-> "json",    name |-> "json",            at |-> <<>>],
     [kind |-> "form",    name |-> "urlencoded",      at |-> <<>>],
     [kind |-> "mount",   name |-> "surveyRoutes",    at |-> <<"api", "v1", "responses">>],
     [kind |-> "mount",   name |-> "authRoutes",      at |-> <<"api", "v1", "auth">>],
     [kind |-> "mount",   name |-> "analyticsRoutes", at |-> <<"api", "v1", "analytics">>],
     [kind |-> "mount",   name |-> "analyticsRoutes", at |-> <<"api", "v1", "adv">>],
     [kind |-> "mount",   name |-> "responseRoute",   at |-> <<"api", "v1", "surveys">>],
     [kind |-> "get",     name |-> "health",          at |-> <<"api", "health">>],
     [kind |-> "get",     name |-> "welcome",         at |-> <<>>],
     [kind |-> "error",   name |-> "errorHandler",    at |-> <<>>] >>

Collaborators == {"surveyRoutes", "authRoutes", "analyticsRoutes", "responseRoute"}

\* A plausible slip: a pending error does not make the router skip the stages
AppliesIgnoringError(s, r) ==
  CASE s.kind = "options" -> r.method = "OPTIONS"
    [] s.kind = "mount"   -> IsPrefix(s.at, r.path)
    [] s.kind = "get"     -> r.method = "GET" /\ r.path = s.at
    [] s.kind = "error"   -> r.err # NoError
    [] OTHER              -> TRUE

\* whether the router hands the request to stage s: with an error pending only
\* error middleware runs, without one only the stages whose method and path match
Applies(s, r) ==
  IF r.err # NoError THEN s.kind = "error"
  ELSE CASE s.kind = "options" -> r.method = "OPTIONS"
         [] s.kind = "mount"   -> IsPrefix(s.at, r.path)
         [] s.kind = "get"     -> r.method = "GET" /\ r.path = s.at
         [] s.kind = "error"   -> FALSE
         [] OTHER              -> TRUE

\* A plausible slip: a denied origin is passed on instead of raised
CorsMiddlewareLenient(r) ==
  IF r.method = "OPTIONS"
  THEN Respond(r, "cors", optionsSuccessStatus, [preflight |-> TRUE])
  ELSE Pass(r)

\* A plausible slip: preflightContinue, an admitted preflight goes on to the routes
CorsMiddlewarePreflightContinue(r) ==
  LET d == CorsOrigin(r.origin) IN
  IF ~d.allow THEN Raise(r, d.err) ELSE Pass(r)

\* cors(corsOptions): the origin callback decides; a denial is next(err); an
\* admitted preflight is answered here, anything else admitted goes on
CorsMiddleware(r) ==
  LET d == CorsOrigin(r.origin) IN
  IF ~d.allow THEN Raise(r, d.err)
  ELSE IF r.method = "OPTIONS"
       THEN Respond(r, "cors", optionsSuccessStatus, [preflight |-> TRUE])
       ELSE Pass(r)

\* utils/errorHandler: answers with the error's reason and a non-2xx status
ErrorHandler(r) ==
  Respond(r, "errorHandler", IF r.err = "parse" THEN 400 ELSE 500, [error |-> r.err])

\* A plausible slip: the readiness flag is compared with the wrong code
HealthRouteWrongFlag(r, rs) ==
  Respond(r, "health", 200, HealthPayload(IF rs = 2 THEN 1 ELSE 0))

HealthRoute(r, rs) == Respond(r, "health", 200, HealthPayload(rs))

\* A plausible slip: the welcome payload echoes a request header
WelcomeRouteEcho(r) ==
  Respond(r, "welcome", 200, [WelcomePayload EXCEPT !.message = IF r.origin.present THEN "Hello" ELSE @])

WelcomeRoute(r) == Respond(r, "welcome", 200, WelcomePayload)

\* the router's own answer when the stack is exhausted
FinalHandler(r) ==
  IF r.err # NoError
  THEN Respond(r, "finalhandler", 500, [error |-> r.err])
  ELSE Respond(r, "finalhandler", 404, [error |-> "Not Found"])

\* stages that wait for input or for a collaborator stop the synchronous run
Suspends(s, r) ==
  \/ s.kind = "json" /\ r.body # "none"
  \/ s.kind = "mount"

\* one stage that runs to completion at once
Exec(s, r, rs) ==
  LET v == Visit(r, s.name) IN
  CASE s.kind = "cors"    -> CorsMiddleware(v)
    [] s.kind = "options" -> CorsMiddleware(v)
    [] s.kind = "get"     -> IF s.name = "health" THEN HealthRoute(v, rs) ELSE WelcomeRoute(v)
    [] s.kind = "error"   -> ErrorHandler(v)
    [] OTHER              -> Pass(v)

\* run the stages from r.next on until one answers or one suspends; the result
\* is the request and the state of its connection
RECURSIVE Run(_, _)
Run(r, rs) ==
  IF r.responses # <<>> THEN [st |-> "done", req |-> r]
  ELSE IF r.next > Len(Pipeline) THEN [st |-> "done", req |-> FinalHandler(r)]
  ELSE LET s == Pipeline[r.next] IN
       IF ~Applies(s, r) THEN Run(Pass(r), rs)
       ELSE IF Suspends(s, r)
            THEN [st |-> IF s.kind = "mount" THEN "collab" ELSE "parsing",
                  req |-> Visit(r, s.name)]
            ELSE Run(Exec(s, r, rs), rs)

------------------------------------------------------------------------------
(* Initial state: the process has started, nothing of the main module has run *)

Init ==
  /\ pc = "env"
  /\ pendingRej = FALSE
  /\ listening = FALSE
  /\ closeCalls = 0
  /\ trace = <<>>
  /\ exitCode = -1
  /\ exitVia = "none"
  /\ readyState = 0
  /\ conns = [c \in Conns |-> ClosedConn]
  /\ stableDb = "none"
  /\ probe = [origin |-> Absent, called |-> FALSE, result |-> NotCalled]

lifecycleVars == <<pc, pendingRej, listening, closeCalls, trace, exitCode, exitVia>>

------------------------------------------------------------------------------
(* Startup: the main module, top to bottom *)

\* dotenv.config()
LoadEnv ==
  /\ pc = "env"
  /\ pc' = "db"
  /\ UNCHANGED <<pendingRej, listening, closeCalls, trace, exitCode, exitVia,
                 readyState, conns, stableDb, probe>>

\* connectDB(): returns at once; the connection attempt goes on in the
\* background and its promise may be rejected with nobody handling it
ConnectDB ==
  /\ pc = "db"
  /\ pc' = "routes"
  /\ pendingRej' \in BOOLEAN
  /\ UNCHANGED <<listening, closeCalls, trace, exitCode, exitVia,
                 readyState, conns, stableDb, probe>>

\* express(), the middleware registrations, the route requires and mounts
LoadRoutes ==
  /\ pc = "routes"
  /\ pc' = "listen"
  /\ UNCHANGED <<pendingRej, listening, closeCalls, trace, exitCode, exitVia,
                 readyState, conns, stableDb, probe>>

\* app.listen(PORT, ...)
Listen ==
  /\ pc = "listen"
  /\ pc' = "install"
  /\ listening' = TRUE
  /\ UNCHANGED <<pendingRej, closeCalls, trace, exitCode, exitVia,
                 readyState, conns, stableDb, probe>>

\* process.on('unhandledRejection', ...) and process.on('uncaughtException', ...)
InstallHandlers ==
  /\ pc = "install"
  /\ pc' = "running"
  /\ UNCHANGED <<pendingRej, listening, closeCalls, trace, exitCode, exitVia,
                 readyState, conns, stableDb, probe>>

\* both handlers are registered from the end of the main module on
HandlersInstalled == pc = "running"

\* a statement of the main module throws before the handlers are registered:
\* the runtime prints the error and ends the process with status 1
StartupFault ==
  /\ pc \in {"env", "db", "routes", "listen"}
  /\ pc' = "exited"
  /\ exitCode' = 1
  /\ exitVia' = "default"
  /\ listening' = FALSE
  /\ UNCHANGED <<pendingRej, closeCalls, trace, readyState, conns, stableDb, probe>>

------------------------------------------------------------------------------
(* The lifecycle guard *)

\* A plausible slip: the listener is closed before the failure is logged
GuardStepsCloseFirst == <<"close", "log">>

\* the body of either handler, in statement order: console.error, then server.close
GuardSteps == <<"log", "close">>

GuardExitCode == 1

\* A plausible slip: close() leaves the listener accepting
ListeningAfterCloseStill == TRUE

\* server.close(): the listener stops accepting connections
ListeningAfterClose == FALSE

\* what server.close() does to the connections: connections carrying a request
\* are kept; idle ones are closed or kept, depending on the runtime's version
ConnsAfterClose(closeIdle) ==
  [c \in Conns |->
     IF closeIdle /\ conns[c].st = "idle" THEN ClosedConn ELSE conns[c]]

GuardHandler ==
  /\ closeCalls < MaxFaults
  /\ trace' = trace \o GuardSteps
  /\ closeCalls' = closeCalls + 1
  /\ listening' = ListeningAfterClose
  /\ \E closeIdle \in BOOLEAN : conns' = ConnsAfterClose(closeIdle)
  /\ UNCHANGED <<pc, exitCode, exitVia, readyState, stableDb, probe>>

\* process.on('unhandledRejection'): a promise is rejected with nobody handling it
UnhandledRejection ==
  /\ HandlersInstalled
  /\ GuardHandler
  /\ UNCHANGED pendingRej

\* process.on('uncaughtException'): a callback throws with nobody catching it
UncaughtException ==
  /\ HandlersInstalled
  /\ GuardHandler
  /\ UNCHANGED pendingRej

\* the rejection of startup is reported after the main module has run
ReportPendingRejection ==
  /\ HandlersInstalled
  /\ pendingRej
  /\ pendingRej' = FALSE
  /\ GuardHandler

OpenConns == {c \in Conns : conns[c].st # "closed"}

\* the callback of server.close runs once the listener is closed and every
\* connection has ended
ExitEnabled == closeCalls > 0 /\ OpenConns = {}

\* () => process.exit(1)
GuardExit ==
  /\ pc = "running"
  /\ ExitEnabled
  /\ pc' = "exited"
  /\ exitCode' = GuardExitCode
  /\ exitVia' = "guard"
  /\ trace' = Append(trace, "exit")
  /\ conns' = [c \in Conns |-> ClosedConn]
  /\ UNCHANGED <<pendingRej, listening, closeCalls, readyState, stableDb, probe>>

------------------------------------------------------------------------------
(* Connections and requests *)

Alive == pc = "running"

\* the listener accepts a connection
Accept(c) ==
  /\ Alive
  /\ listening
  /\ conns[c].st = "closed"
  /\ conns' = [conns EXCEPT ![c] = [st |-> "idle", req |-> NoReq]]
  /\ UNCHANGED <<lifecycleVars, readyState, stableDb, probe>>

\* the database field a health call answered in this step leaves behind
StableAfter(old, new) ==
  IF new.st = "done" /\ new.req.responses[1].by = "health"
     /\ (old.st # "done")
  THEN new.req.responses[1].payload.database
  ELSE stableDb

\* a request arrives on an open connection and runs through the stages up to
\* the first one that answers or waits
Arrive(c) ==
  /\ Alive
  /\ conns[c].st = "idle"
  /\ \E m \in Methods, p \in ReqPaths, o \in ReqOrigins : \E b \in BodiesOf(m) :
       LET out == Run(NewReq(m, p, o, b, closeCalls > 0), readyState) IN
       /\ conns' = [conns EXCEPT ![c] = [@ EXCEPT !.st = out.st, !.req = out.req]]
       /\ stableDb' = StableAfter(conns[c], out)
  /\ UNCHANGED <<lifecycleVars, readyState, probe>>

\* express.json() has read the body: a malformed one is raised as an error,
\* a well-formed one lets the request go on
BodyParsed(c) ==
  /\ Alive
  /\ conns[c].st = "parsing"
  /\ LET r == conns[c].req
         out == Run(IF r.body = "badjson" THEN Raise(r, "parse") ELSE Pass(r), readyState)
     IN /\ conns' = [conns EXCEPT ![c] = [@ EXCEPT !.st = out.st, !.req = out.req]]
        /\ stableDb' = StableAfter(conns[c], out)
  /\ UNCHANGED <<lifecycleVars, readyState, probe>>

CollabOutcomes == {"respond", "throw", "next"}

\* the route collaborator the request was handed to answers, raises an error
\* or passes the request on
Collaborator(r, how) ==
  CASE how = "respond" -> Respond(r, r.visited[Len(r.visited)], 200, [handled |-> TRUE])
    [] how = "throw"   -> Raise(r, "collaborator")
    [] OTHER           -> Pass(r)

CollabDone(c) ==
  /\ Alive
  /\ conns[c].st = "collab"
  /\ \E how \in CollabOutcomes :
       LET out == Run(Collaborator(conns[c].req, how), readyState) IN
       /\ conns' = [conns EXCEPT ![c] = [@ EXCEPT !.st = out.st, !.req = out.req]]
       /\ stableDb' = StableAfter(conns[c], out)
  /\ UNCHANGED <<lifecycleVars, readyState, probe>>

\* a request arrives on a background connection
BackgroundArrive(c) ==
  /\ Alive
  /\ conns[c].st = "idle"
  /\ conns' = [conns EXCEPT ![c] = [st |-> "busy", req |-> NoReq]]
  /\ UNCHANGED <<lifecycleVars, readyState, stableDb, probe>>

\* the request of a background connection has been answered: the connection is
\* kept alive or ended
BackgroundFinish(c) ==
  /\ Alive
  /\ conns[c].st = "busy"
  /\ \E keep \in BOOLEAN :
       conns' = [conns EXCEPT ![c] =
                   IF keep THEN [st |-> "idle", req |-> NoReq] ELSE ClosedConn]
  /\ UNCHANGED <<lifecycleVars, readyState, stableDb, probe>>

\* the response has been written out: the connection is kept alive or ended
Finish(c) ==
  /\ Alive
  /\ conns[c].st = "done"
  /\ \E keep \in BOOLEAN :
       conns' = [conns EXCEPT ![c] =
                   IF keep THEN [@ EXCEPT !.st = "idle", !.req = NoReq] ELSE ClosedConn]
  /\ UNCHANGED <<lifecycleVars, readyState, stableDb, probe>>

\* an idle connection ends: the client hangs up or the keep-alive timeout fires
IdleEnd(c) ==
  /\ Alive
  /\ conns[c].st = "idle"
  /\ conns' = [conns EXCEPT ![c] = ClosedConn]
  /\ UNCHANGED <<lifecycleVars, readyState, stableDb, probe>>

ReadyStates == 0..3

\* the database client changes its connection state
DbChange ==
  /\ pc \in {"routes", "listen", "install", "running"}
  /\ \E rs \in ReadyStates \ {readyState} : readyState' = rs
  /\ stableDb' = "none"
  /\ UNCHANGED <<lifecycleVars, conns, probe>>

------------------------------------------------------------------------------
(* Specifications *)

Next ==
  \/ LoadEnv
  \/ ConnectDB
  \/ LoadRoutes
  \/ Listen
  \/ InstallHandlers
  \/ StartupFault
  \/ UnhandledRejection
  \/ UncaughtException
  \/ ReportPendingRejection
  \/ GuardExit
  \/ DbChange
  \/ \E c \in Conns : Accept(c)
  \/ \E c \in Observed : Arrive(c)
  \/ \E c \in Observed : BodyParsed(c)
  \/ \E c \in Observed : CollabDone(c)
  \/ \E c \in Observed : Finish(c)
  \/ \E c \in Background : BackgroundArrive(c)
  \/ \E c \in Background : BackgroundFinish(c)
  \/ \E c \in Conns : IdleEnd(c)

Spec == Init /\ [][Next]_vars

\* The event loop runs every callback that is ready: the guard's exit callback,
\* the completion of a response, the end of body parsing, the keep-alive
\* timeout of an idle connection.  Nothing makes a collaborator answer.
FairSpec ==
  /\ Spec
  /\ WF_vars(GuardExit)
  /\ \A c \in Observed : WF_vars(Finish(c)) /\ WF_vars(BodyParsed(c))
  /\ \A c \in Conns : WF_vars(IdleEnd(c))

\* corsOptions.origin applied to one origin
InitOrigin ==
  /\ Init!1 /\ Init!2 /\ Init!3 /\ Init!4 /\ Init!5 /\ Init!6 /\ Init!7
  /\ Init!8 /\ Init!9 /\ Init!10
  /\ probe \in [origin : AllOrigins, called : {FALSE}, result : {NotCalled}]

OriginCall ==
  /\ ~probe.called
  /\ probe' = [probe EXCEPT !.called = TRUE, !.result = CorsOrigin(probe.origin)]
  /\ UNCHANGED <<lifecycleVars, readyState, conns, stableDb>>

OriginSpec == InitOrigin /\ [][OriginCall]_vars

------------------------------------------------------------------------------
(* What the specification says, stated without the code's own operators *)

AllowedSet == { <<"L">>, <<"P">>, <<"P", "/">> }

\* s is an entry of the set, or an entry of the set followed by one slash
MemberUpToOneSlash(s) == s \in AllowedSet \/ \E t \in AllowedSet : s = Append(t, "/")

AdmittedAsClaimed(o) == ~o.present \/ MemberUpToOneSlash(o.text)

Admitted(o) == ~o.present \/ o.text = <<>> \/ MemberUpToOneSlash(o.text)

InPipeline(c) == conns[c].st \in {"parsing", "collab", "done"}

Answered(c) == conns[c].st = "done"

Elems(q) == {q[i] : i \in 1..Len(q)}

HealthPath == <<"api", "health">>

WelcomePath == <<>>

------------------------------------------------------------------------------
(* C1 *)

\* C1 as stated: the origin callback allows exactly when the origin is absent,
\* is an entry of the allowed set, or is an entry followed by one trailing slash
C1_Original ==
  probe.called => (probe.result.allow <=> AdmittedAsClaimed(probe.origin))

\* C1 amended: the origin callback allows exactly when the origin is absent or
\* the empty string, is an entry of the allowed set, or is an entry followed by
\* one trailing slash; a denial carries the error "Not allowed by CORS"
C1_Amended ==
  probe.called =>
    /\ probe.result.allow <=> Admitted(probe.origin)
    /\ probe.result.allow <=> probe.result.err = NoError
    /\ ~probe.result.allow <=> probe.result.err = "Not allowed by CORS"

C1_Witness ==
  /\ probe.called
  /\ probe.origin = Present(<<"L", "/">>)
  /\ probe.result.allow

------------------------------------------------------------------------------
(* C2 *)

\* C2: a request whose origin is denied visits no stage but the CORS check and
\* the terminal error handler, and is answered by the error handler alone with
\* the reason "Not allowed by CORS" and a status other than 200
C2_DeniedNeverServed ==
  \A c \in Observed :
    (InPipeline(c) /\ ~Admitted(conns[c].req.origin)) =>
      LET r == conns[c].req IN
      /\ Answered(c)
      /\ r.visited = <<"cors", "errorHandler">>
      /\ r.err = "Not allowed by CORS"
      /\ Len(r.responses) = 1
      /\ r.responses[1].by = "errorHandler"
      /\ r.responses[1].status # 200
      /\ r.responses[1].payload = [error |-> "Not allowed by CORS"]

C2_Witness ==
  \E c \in Observed :
    /\ Answered(c)
    /\ conns[c].req.origin = Present(<<"x">>)
    /\ conns[c].req.method = "POST"
    /\ conns[c].req.path = <<"api", "v1", "responses">>
    /\ conns[c].req.responses[1].by = "errorHandler"

------------------------------------------------------------------------------
(* C3 *)

\* C3: the CORS error is raised for a request exactly when its origin is
\* denied, whatever its method; a preflight is answered at once, never visits
\* a route collaborator, gets status 200 from the CORS stage when its origin is
\* admitted and the error handler's answer when it is denied
C3_Preflight ==
  \A c \in Observed :
    InPipeline(c) =>
      LET r == conns[c].req IN
      /\ (r.err = "Not allowed by CORS") <=> ~Admitted(r.origin)
      /\ r.method = "OPTIONS" =>
           /\ Answered(c)
           /\ Elems(r.visited) \cap Collaborators = {}
           /\ Len(r.responses) = 1
           /\ Admitted(r.origin) =>
                (r.responses[1].by = "cors" /\ r.responses[1].status = 200)
           /\ ~Admitted(r.origin) =>
                (r.responses[1].by = "errorHandler" /\ r.responses[1].status # 200)

C3_Witness ==
  \E c \in Observed :
    /\ Answered(c)
    /\ conns[c].req.method = "OPTIONS"
    /\ conns[c].req.path = <<"api", "v1", "auth">>
    /\ conns[c].req.origin = Present(<<"P", "/">>)
    /\ conns[c].req.responses[1].status = 200

------------------------------------------------------------------------------
(* C4 *)

\* C4: every close of the listener by the guard directly follows a log line,
\* every log line is directly followed by the close, the exit comes last and
\* after a close, and a process ended by the guard has exit status 1
C4_GuardOrder ==
  /\ \A i \in 1..Len(trace) :
       /\ trace[i] = "close" => (i > 1 /\ trace[i - 1] = "log")
       /\ trace[i] = "log" => (i < Len(trace) /\ trace[i + 1] = "close")
       /\ trace[i] = "exit" => (i = Len(trace) /\ i > 2 /\ trace[i - 1] = "close")
  /\ exitVia = "guard" =>
       /\ exitCode = 1
       /\ closeCalls > 0
       /\ trace # <<>> /\ trace[Len(trace)] = "exit"
  /\ exitCode # 0

C4_Witness ==
  /\ pc = "exited"
  /\ exitVia = "guard"
  /\ trace = <<"log", "close", "log", "close", "exit">>

------------------------------------------------------------------------------
(* C5 *)

FaultObserved == closeCalls > 0 \/ exitVia = "default"

\* C5: after a fatal fault the process eventually ends with a non-zero status,
\* whether or not the requests in flight run to completion
C5_EventuallyExits == FaultObserved ~> (pc = "exited" /\ exitCode > 0)

------------------------------------------------------------------------------
(* C6 *)

IsHealthCall(c) ==
  conns[c].req.method = "GET" /\ conns[c].req.path = HealthPath

\* C6 as stated: every answered GET /api/health has status 200 and status "ok"
C6_Original ==
  \A c \in Observed :
    (Answered(c) /\ IsHealthCall(c)) =>
      /\ conns[c].req.responses[1].status = 200
      /\ conns[c].req.responses[1].by = "health"

DbAsClaimed(rs) == IF rs = 1 THEN "connected" ELSE "disconnected"

HealthAnswerOk(c) ==
  LET r == conns[c].req IN
  /\ Len(r.responses) = 1
  /\ r.responses[1].by = "health"
  /\ r.responses[1].status = 200
  /\ r.responses[1].payload.status = "ok"
  /\ r.responses[1].payload.database \in {"connected", "disconnected"}

\* C6 amended: every answered GET /api/health whose origin is admitted and
\* whose body is not malformed has status 200 and status "ok"; the database
\* field of a health answer is "connected" exactly when readyState is 1 when
\* it is given; a health answer given with no readyState change since the
\* previous one repeats its database field
C6_Amended ==
  /\ [](\A c \in Observed :
          (Answered(c) /\ IsHealthCall(c) /\ Admitted(conns[c].req.origin)
             /\ conns[c].req.body # "badjson") => HealthAnswerOk(c))
  /\ [](stableDb # "none" => stableDb = DbAsClaimed(readyState))
  /\ [][\A c \in Observed :
          (~Answered(c) /\ Answered(c)' /\ IsHealthCall(c)' /\ HealthAnswerOk(c)') =>
             /\ conns'[c].req.responses[1].payload.database = DbAsClaimed(readyState)
             /\ stableDb # "none" =>
                  conns'[c].req.responses[1].payload.database = stableDb]_vars

C6_Witness ==
  \E c \in Observed :
    /\ Answered(c)
    /\ IsHealthCall(c)
    /\ readyState = 3
    /\ stableDb = "disconnected"
    /\ conns[c].req.responses[1].status = 200
    /\ conns[c].req.responses[1].payload = [status |-> "ok", database |-> "disconnected", version |-> "1.0.0"]

------------------------------------------------------------------------------
(* C7 *)

IsWelcomeCall(c) ==
  conns[c].req.method = "GET" /\ conns[c].req.path = WelcomePath

WelcomeAsClaimed ==
  [by |-> "welcome", status |-> 200,
   payload |-> [message |-> "Maternal Survey API",
                version |-> "1.0.0",
                endpoints |-> [survey |-> "/api/v1/responses",
                               auth |-> "/api/v1/auth",
                               analytics |-> "/api/v1/analytics",
                               advanced |-> "/api/v1/adv"],
                documentation |-> "https://github.com/your-repo/docs"]]

\* C7 as stated: every answered GET / carries the static welcome payload with
\* status 200, whatever its headers and body
C7_Original ==
  \A c \in Observed :
    (Answered(c) /\ IsWelcomeCall(c)) => conns[c].req.responses = <<WelcomeAsClaimed>>

\* C7 amended: every answered GET / whose origin is admitted and whose body is
\* not malformed carries the static welcome payload with status 200, whatever
\* else its headers and body are
C7_Amended ==
  \A c \in Observed :
    (Answered(c) /\ IsWelcomeCall(c) /\ Admitted(conns[c].req.origin)
       /\ conns[c].req.body # "badjson") =>
      conns[c].req.responses = <<WelcomeAsClaimed>>

C7_Witness ==
  \E c \in Observed :
    /\ Answered(c)
    /\ IsWelcomeCall(c)
    /\ conns[c].req.origin = Present(<<"P", "/">>)
    /\ conns[c].req.body = "json"
    /\ conns[c].req.responses = <<WelcomeAsClaimed>>

------------------------------------------------------------------------------
(* C8 *)

\* C8: a request has at most one response, and has one exactly when it is
\* answered; once a stage has raised an error, the only response is the
\* terminal error handler's and no other stage runs after the raise
C8_OneResponse ==
  \A c \in Observed :
    LET r == conns[c].req IN
    /\ Len(r.responses) <= 1
    /\ Answered(c) <=> Len(r.responses) = 1
    /\ (r.err # NoError) =>
         /\ Answered(c)
         /\ r.responses[1].by = "errorHandler"
         /\ r.responses[1].payload = [error |-> r.err]
         /\ r.visited[Len(r.visited)] = "errorHandler"
         /\ \A i \in 1..(Len(r.visited) - 1) : r.visited[i] # "errorHandler"

C8_Witness ==
  \E c \in Observed :
    /\ Answered(c)
    /\ conns[c].req.err = "collaborator"
    /\ conns[c].req.visited = <<"cors", "json", "urlencoded", "analyticsRoutes", "errorHandler">>
    /\ Len(conns[c].req.responses) = 1

------------------------------------------------------------------------------
(* C9 *)

\* C9: whenever the process has ended on a fatal fault, the guard has handled
\* it: the failure was logged, the listener closed, and the guard's exit ran
C9_GuardCoversStartup ==
  pc = "exited" =>
    /\ exitVia = "guard"
    /\ exitCode = 1
    /\ Elems(trace) = {"log", "close", "exit"}

------------------------------------------------------------------------------
(* C10 *)

\* C10 as stated: no request in the pipeline arrived after the guard had
\* initiated the close of the listener
C10_Original ==
  \A c \in Observed : InPipeline(c) => ~conns[c].req.late

\* C10 amended: once the guard has initiated the close of the listener, the
\* listener accepts no new connection for as long as the process lives
C10_Amended ==
  /\ [](closeCalls > 0 => ~listening)
  /\ [][closeCalls > 0 =>
          \A c \in Conns : conns[c].st = "closed" => conns'[c].st = "closed"]_vars

C10_Witness ==
  /\ Alive
  /\ closeCalls > 0
  /\ ~listening
  /\ \E c \in Conns : conns[c].st = "closed"
  /\ \E c \in Conns : conns[c].st # "closed"

==============================================================================
